---- MODULE Spec2Model ----
(***************************************************************************)
(* Model of src/main.py: the customer ledger service over a transactional  *)
(* document store (Cloud Firestore).  Every request handler is a process   *)
(* step sequence; a transactional handler runs its body (one snapshot read *)
(* followed by buffered writes), then commits; a commit whose read set has *)
(* been overwritten aborts and the body is run again.                      *)
(***************************************************************************)
EXTENDS Integers, Sequences, FiniteSets, TLC

\* ------------------------------------------------------------------ bounds

\* Number of concurrently served requests (request slots).
NumProcs == 2

\* Total number of requests accepted in one behaviour.
MaxOps == 2

\* Width of the significand of the modelled binary floating point numbers
\* (Python's float has 53 bits; amounts are counted in units of the smallest
\* amount, so every value in the model is an integer number of units).
MantBits == 3

\* Attempts of a transaction made by firestore.transactional before it gives
\* up (the default of db.transaction(), which the handlers do not override).
MaxAttempts == 5

Procs == 1..NumProcs

\* The store a behaviour starts from: the empty store, and the stores left by
\* the first 1, ..., MaxSeed requests of an earlier history (SeedRequests).
MaxSeed == 2

\* Request inputs.
Names == {"X", "Y"}
NoId == "<None>"
RequestedIds == {NoId, "", "GOD-0001"}
TargetIds == {"GOD-0001"}
Amounts == {1, 8}
InvalidAmounts == {-1, 0}

\* ------------------------------------------------------ float arithmetic

Pow2(e) == 2 ^ e

Abs(x) == IF x < 0 THEN -x ELSE x

\* Smallest exponent e with n / 2^e < 2^MantBits, for n >= 0.
RECURSIVE ExponentFrom(_, _)
ExponentFrom(n, e) ==
    IF n \div Pow2(e) < Pow2(MantBits) THEN e ELSE ExponentFrom(n, e + 1)

\* Round-to-nearest, ties-to-even, of the exact integer n to MantBits
\* significant bits: the result of a float operation whose exact result is n.
RoundFloat(n) ==
    LET a == Abs(n)
        e == ExponentFrom(a, 0)
        q == a \div Pow2(e)
        r == a % Pow2(e)
        half == IF e = 0 THEN 0 ELSE Pow2(e - 1)
        up == e > 0 /\ (r > half \/ (r = half /\ q % 2 = 1))
        m == (IF up THEN q + 1 ELSE q) * Pow2(e)
    IN  IF n < 0 THEN -m ELSE m

\* x + y and x - y on floats.
FAdd(x, y) == RoundFloat(x + y)
FSub(x, y) == RoundFloat(x - y)

\* --------------------------------------------------------- the store

VARIABLES
    db,           \* the store: document key -> fields, for the documents that exist
    pc,           \* per request slot: where its handler stands
    req,          \* per request slot: the request being served
    transaction,  \* per request slot: the state of its transaction
    resp,         \* per request slot: the response of its last request
    opsStarted,   \* number of requests accepted so far
    allocated,    \* history: the committed allocations in commit order, each with
                  \* its number and the count of documents deleted before it
    deletions,    \* history: the number of customer documents deleted so far
    ledger        \* history: per customer document, the amounts of the committed
                  \* top-ups and spends folded in commit order since its creation

vars == <<db, pc, req, transaction, resp, opsStarted, allocated, deletions, ledger>>

CounterRef == <<"counters", "customer_id_counter">>
CustomerRef(id) == <<"customers", id>>

Exists(store, ref) == ref \in DOMAIN store

CustomerKeys(store) == {k \in DOMAIN store : k[1] = "customers"}

\* create-or-replace
SetDoc(store, ref, fields) ==
    [k \in DOMAIN store \cup {ref} |-> IF k = ref THEN fields ELSE store[k]]

\* partial update of an existing document
UpdateDoc(store, ref, fields) ==
    [k \in DOMAIN store |->
        IF k = ref
        THEN [f \in DOMAIN store[k] \cup DOMAIN fields |->
                 IF f \in DOMAIN fields THEN fields[f] ELSE store[k][f]]
        ELSE store[k]]

DeleteDoc(store, ref) == [k \in DOMAIN store \ {ref} |-> store[k]]

\* The buffered writes of a transaction applied in order; an update of an
\* absent document fails the whole commit.
RECURSIVE ApplyWrites(_, _)
ApplyWrites(store, ws) ==
    IF ws = <<>> THEN [ok |-> TRUE, db |-> store]
    ELSE LET w == Head(ws) IN
         IF w.kind = "set"
         THEN ApplyWrites(SetDoc(store, w.ref, w.fields), Tail(ws))
         ELSE IF Exists(store, w.ref)
              THEN ApplyWrites(UpdateDoc(store, w.ref, w.fields), Tail(ws))
              ELSE [ok |-> FALSE, db |-> store]

WrittenRefs(ws) == {ws[i].ref : i \in DOMAIN ws}

\* ------------------------------------------------- requests and responses

NoRecord == [customer_id |-> NoId]

NoRequest == [op |-> "none", customer_id |-> NoId, name |-> "", amount |-> 0]

NoResponse == [status |-> "none", record |-> NoRecord, attempts |-> 0]

\* db.transaction(): no read made, no write buffered.
NoTransaction ==
    [reads |-> {}, writes |-> <<>>, stale |-> FALSE, attempts |-> 0,
     result |-> NoRecord, new_counter_value |-> 0]

\* ------------------------------------------------ transaction bodies

\* What one run of a transaction body does: it raises exc, or it returns
\* result having read `reads` and buffered `writes`.
Raised(exc) ==
    [exc |-> exc, reads |-> {}, writes |-> <<>>, result |-> NoRecord,
     new_counter_value |-> 0]

Returned(reads, writes, result, n) ==
    [exc |-> "none", reads |-> reads, writes |-> writes, result |-> result,
     new_counter_value |-> n]

Digits(n) == ToString(n)

\* Mutant: an identifier without the zero padding.
FormatUnpadded(n) == "GOD-" \o Digits(n)

\* f"GOD-{new_counter_value:04d}"
FormatId(n) ==
    "GOD-" \o (IF n < 10 THEN "000" \o Digits(n)
               ELSE IF n < 100 THEN "00" \o Digits(n)
               ELSE IF n < 1000 THEN "0" \o Digits(n)
               ELSE Digits(n))

\* Mutant: an allocator that numbers the new customer after the documents
\* that exist instead of after the counter.
generate_from_document_count(store) ==
    LET absent == ~Exists(store, CounterRef)
        new_counter_value == Cardinality(CustomerKeys(store)) + 1
    IN  [writes |->
            (IF absent
             THEN <<[kind |-> "set", ref |-> CounterRef,
                     fields |-> [current_value |-> 0]]>>
             ELSE <<>>)
            \o <<[kind |-> "update", ref |-> CounterRef,
                  fields |-> [current_value |-> new_counter_value]]>>,
         new_counter_value |-> new_counter_value,
         generated_id |-> FormatId(new_counter_value)]

\* _generate_sequential_customer_id: the writes it buffers and the number it takes.
generate_sequential_customer_id(store) ==
    LET absent == ~Exists(store, CounterRef)
        current_counter_value == IF absent THEN 0 ELSE store[CounterRef].current_value
        new_counter_value == current_counter_value + 1
    IN  [writes |->
            (IF absent
             THEN <<[kind |-> "set", ref |-> CounterRef,
                     fields |-> [current_value |-> 0]]>>
             ELSE <<>>)
            \o <<[kind |-> "update", ref |-> CounterRef,
                  fields |-> [current_value |-> new_counter_value]]>>,
         new_counter_value |-> new_counter_value,
         generated_id |-> FormatId(new_counter_value)]

\* if doc_id_to_use: None and "" both take the generated-id branch.
Truthy(id) == id # NoId /\ id # ""

NewCustomer(name, id) ==
    [name |-> name, customer_id |-> id,
     total_top_up |-> 0, total_spent |-> 0, balance |-> 0]

\* Mutant: a creation that writes at the requested id without reading it.
create_without_existence_check(store, customer_data) ==
    IF Truthy(customer_data.customer_id)
    THEN LET doc_ref == CustomerRef(customer_data.customer_id)
             new_customer_data_dict ==
                 NewCustomer(customer_data.name, customer_data.customer_id)
         IN  Returned({},
                      <<[kind |-> "set", ref |-> doc_ref,
                         fields |-> new_customer_data_dict]>>,
                      new_customer_data_dict, 0)
    ELSE LET g == generate_sequential_customer_id(store)
             doc_ref == CustomerRef(g.generated_id)
             new_customer_data_dict == NewCustomer(customer_data.name, g.generated_id)
         IN  Returned({CounterRef},
                      g.writes \o <<[kind |-> "set", ref |-> doc_ref,
                                     fields |-> new_customer_data_dict]>>,
                      new_customer_data_dict, g.new_counter_value)

\* The body of create_customer.
create_customer_transaction(store, customer_data) ==
    IF Truthy(customer_data.customer_id)
    THEN LET doc_ref == CustomerRef(customer_data.customer_id)
             new_customer_data_dict ==
                 NewCustomer(customer_data.name, customer_data.customer_id)
         IN  IF Exists(store, doc_ref)
             THEN Raised("409")
             ELSE Returned({doc_ref},
                           <<[kind |-> "set", ref |-> doc_ref,
                              fields |-> new_customer_data_dict]>>,
                           new_customer_data_dict, 0)
    ELSE LET g == generate_sequential_customer_id(store)
             doc_ref == CustomerRef(g.generated_id)
             new_customer_data_dict == NewCustomer(customer_data.name, g.generated_id)
         IN  Returned({CounterRef},
                      g.writes \o <<[kind |-> "set", ref |-> doc_ref,
                                     fields |-> new_customer_data_dict]>>,
                      new_customer_data_dict, g.new_counter_value)

\* The record a top-up or a spend returns: the snapshot with the new values.
Updated(customer_data, fields) ==
    [f \in DOMAIN customer_data |->
        IF f \in DOMAIN fields THEN fields[f] ELSE customer_data[f]]

\* The two fields a top-up writes, from the snapshot and the amount.
TopUpFields(customer_data, amount) ==
    [total_top_up |-> FAdd(customer_data.total_top_up, amount),
     balance |-> FAdd(customer_data.balance, amount)]

\* Mutant: a top-up that takes an absent document for an empty one and
\* writes it.
top_up_upsert(store, customer_id, amount) ==
    LET customer_ref == CustomerRef(customer_id)
        customer_data == IF Exists(store, customer_ref)
                         THEN store[customer_ref]
                         ELSE NewCustomer("", customer_id)
        fields == TopUpFields(customer_data, amount)
    IN  Returned({customer_ref},
                 <<[kind |-> "set", ref |-> customer_ref,
                    fields |-> Updated(customer_data, fields)]>>,
                 Updated(customer_data, fields), 0)

\* The body of top_up_customer_balance.
top_up_update_in_transaction(store, customer_id, amount) ==
    LET customer_ref == CustomerRef(customer_id) IN
    IF ~Exists(store, customer_ref)
    THEN Raised("404")
    ELSE LET customer_data == store[customer_ref]
             fields == TopUpFields(customer_data, amount)
         IN  Returned({customer_ref},
                      <<[kind |-> "update", ref |-> customer_ref, fields |-> fields]>>,
                      Updated(customer_data, fields), 0)

\* Mutant: a spend that does not compare the balance with the amount.
NeverInsufficient(current_balance, amount) == FALSE

\* if current_balance < amount
Insufficient(current_balance, amount) == current_balance < amount

\* Mutant: a spend that takes the amount off total_top_up instead of adding
\* it to total_spent.
SpendFieldsNetted(customer_data, amount) ==
    [total_top_up |-> FSub(customer_data.total_top_up, amount),
     balance |-> FSub(customer_data.balance, amount)]

\* The two fields a spend writes, from the snapshot and the amount.
SpendFields(customer_data, amount) ==
    [total_spent |-> FAdd(customer_data.total_spent, amount),
     balance |-> FSub(customer_data.balance, amount)]

\* The body of spend_customer_balance.
spend_update_in_transaction(store, customer_id, amount) ==
    LET customer_ref == CustomerRef(customer_id) IN
    IF ~Exists(store, customer_ref)
    THEN Raised("404")
    ELSE LET customer_data == store[customer_ref] IN
         IF Insufficient(customer_data.balance, amount)
         THEN Raised("400")
         ELSE LET fields == SpendFields(customer_data, amount) IN
              Returned({customer_ref},
                       <<[kind |-> "update", ref |-> customer_ref, fields |-> fields]>>,
                       Updated(customer_data, fields), 0)

TransactionBody(store, r) ==
    CASE r.op = "create" -> create_customer_transaction(store, r)
      [] r.op = "topup" -> top_up_update_in_transaction(store, r.customer_id, r.amount)
      [] OTHER -> spend_update_in_transaction(store, r.customer_id, r.amount)

\* An earlier history: a creation without requested id, a top-up of the
\* customer created, a second creation.
SeedRequests ==
    << [op |-> "create", customer_id |-> NoId, name |-> "X", amount |-> 0],
       [op |-> "topup", customer_id |-> "GOD-0001", name |-> "", amount |-> 8],
       [op |-> "create", customer_id |-> NoId, name |-> "X", amount |-> 0] >>

\* The store after the first n requests of SeedRequests, one after the other.
RECURSIVE SeedStore(_)
SeedStore(n) ==
    IF n = 0 THEN [k \in {} |-> NoRecord]
    ELSE LET b == TransactionBody(SeedStore(n - 1), SeedRequests[n])
         IN  ApplyWrites(SeedStore(n - 1), b.writes).db

ZeroLedger == [total_top_up |-> 0, total_spent |-> 0, balance |-> 0]

\* The totals of a stored customer document.
Totals(doc) ==
    [total_top_up |-> doc.total_top_up, total_spent |-> doc.total_spent,
     balance |-> doc.balance]

Init ==
    /\ \E n \in 0..MaxSeed :
          /\ db = SeedStore(n)
          /\ allocated =
                 [i \in 1..(IF Exists(SeedStore(n), CounterRef)
                            THEN SeedStore(n)[CounterRef].current_value ELSE 0)
                     |-> [number |-> i, deleted |-> 0]]
          /\ ledger = [k \in CustomerKeys(SeedStore(n)) |-> Totals(SeedStore(n)[k])]
    /\ deletions = 0
    /\ pc = [p \in Procs |-> "idle"]
    /\ req = [p \in Procs |-> NoRequest]
    /\ transaction = [p \in Procs |-> NoTransaction]
    /\ resp = [p \in Procs |-> NoResponse]
    /\ opsStarted = 0

\* ------------------------------------------------ the transaction runner

\* except HTTPException: raise / except Exception: raise HTTPException(500)
HttpStatuses == {"400", "404", "409"}
HandlerStatus(exc) == IF exc \in HttpStatuses THEN exc ELSE "500"

\* Mutant: a runner that never runs a body again.
NothingRetryable(exc) == FALSE

\* Mutant: a runner that runs the body again after any exception.
EverythingRetryable(exc) == TRUE

\* firestore.transactional runs the body again only after a commit that the
\* store aborted; an exception of the body is rolled back and raised.
Retryable(exc) == exc = "Aborted"

\* Attempt number `attempt` of p's transaction ended with exception exc:
\* the body is run again, or the handler answers with the error.
AttemptFailed(p, exc, attempt) ==
    IF Retryable(exc) /\ attempt < MaxAttempts
    THEN /\ pc' = [pc EXCEPT ![p] = "retry"]
         /\ transaction' = [transaction EXCEPT ![p] =
                [NoTransaction EXCEPT !.attempts = attempt]]
         /\ resp' = [resp EXCEPT ![p] = NoResponse]
    ELSE /\ pc' = [pc EXCEPT ![p] = "idle"]
         /\ transaction' = [transaction EXCEPT ![p] = NoTransaction]
         /\ resp' = [resp EXCEPT ![p] =
                [status |-> HandlerStatus(exc), record |-> NoRecord,
                 attempts |-> attempt]]

\* Attempt number `attempt` of the transaction of request r: the body runs
\* on the store as it is now; what it read and buffered awaits the commit.
RunBody(p, r, attempt) ==
    LET b == TransactionBody(db, r) IN
    IF b.exc = "none"
    THEN /\ pc' = [pc EXCEPT ![p] = "commit"]
         /\ transaction' = [transaction EXCEPT ![p] =
                [reads |-> b.reads, writes |-> b.writes, stale |-> FALSE,
                 attempts |-> attempt, result |-> b.result,
                 new_counter_value |-> b.new_counter_value]]
         /\ resp' = [resp EXCEPT ![p] = NoResponse]
    ELSE AttemptFailed(p, b.exc, attempt)

\* Mutant: a validation that lets the amount 0 pass.
AmountNotNegative(amount) == amount >= 0

\* amount: float = Field(..., gt=0)
TransactionAmount(amount) == amount > 0

\* The request body fails validation: the request is answered with 422 and
\* the handler is not called.
Rejected(p) ==
    /\ pc' = [pc EXCEPT ![p] = "idle"]
    /\ transaction' = [transaction EXCEPT ![p] = NoTransaction]
    /\ resp' = [resp EXCEPT ![p] =
           [status |-> "422", record |-> NoRecord, attempts |-> 0]]

\* A request is accepted by a free slot.
Accept(p, r) ==
    /\ pc[p] = "idle"
    /\ opsStarted < MaxOps
    /\ opsStarted' = opsStarted + 1
    /\ req' = [req EXCEPT ![p] = r]

\* POST /customers/: the handler up to the end of the body's first run.
create_customer(p, name, id) ==
    LET r == [op |-> "create", customer_id |-> id, name |-> name, amount |-> 0] IN
    /\ Accept(p, r)
    /\ RunBody(p, r, 1)
    /\ UNCHANGED <<db, allocated, deletions, ledger>>

\* PUT /customers/{customer_id}/topup
top_up_customer_balance(p, id, amount) ==
    LET r == [op |-> "topup", customer_id |-> id, name |-> "", amount |-> amount] IN
    /\ Accept(p, r)
    /\ IF TransactionAmount(amount) THEN RunBody(p, r, 1) ELSE Rejected(p)
    /\ UNCHANGED <<db, allocated, deletions, ledger>>

\* PUT /customers/{customer_id}/spend
spend_customer_balance(p, id, amount) ==
    LET r == [op |-> "spend", customer_id |-> id, name |-> "", amount |-> amount] IN
    /\ Accept(p, r)
    /\ IF TransactionAmount(amount) THEN RunBody(p, r, 1) ELSE Rejected(p)
    /\ UNCHANGED <<db, allocated, deletions, ledger>>

\* The runner's next attempt after an aborted commit.
retry(p) ==
    /\ pc[p] = "retry"
    /\ RunBody(p, req[p], transaction[p].attempts + 1)
    /\ UNCHANGED <<db, req, opsStarted, allocated, deletions, ledger>>

\* A committed write makes stale every other transaction that read the document.
Invalidate(p, refs) ==
    [q \in Procs |->
        IF q # p /\ transaction[q].reads \cap refs # {}
        THEN [transaction[q] EXCEPT !.stale = TRUE]
        ELSE transaction[q]]

\* Mutant: a commit that does not validate what the transaction read.
ReadSetUnchecked(t) == TRUE

\* The read set of a transaction is validated at its commit.
ReadSetValid(t) == ~t.stale

\* The history after the commit of request r on the customer document k.
LedgerAfter(r, k) ==
    LET old == IF k \in DOMAIN ledger THEN ledger[k] ELSE ZeroLedger
        new == CASE r.op = "create" -> ZeroLedger
                 [] r.op = "topup" ->
                      [old EXCEPT !.total_top_up = FAdd(@, r.amount),
                                  !.balance = FAdd(@, r.amount)]
                 [] OTHER ->
                      [old EXCEPT !.total_spent = FAdd(@, r.amount),
                                  !.balance = FSub(@, r.amount)]
    IN  [x \in DOMAIN ledger \cup {k} |-> IF x = k THEN new ELSE ledger[x]]

SuccessStatus(op) == IF op = "create" THEN "201" ELSE "200"

\* transaction._commit() of a transaction whose reads are still current: the
\* buffered writes are applied together and the handler returns the result.
commit(p) ==
    /\ pc[p] = "commit"
    /\ ReadSetValid(transaction[p])
    /\ LET t == transaction[p]
           applied == ApplyWrites(db, t.writes)
       IN  IF applied.ok
           THEN /\ db' = applied.db
                /\ pc' = [pc EXCEPT ![p] = "idle"]
                /\ resp' = [resp EXCEPT ![p] =
                       [status |-> SuccessStatus(req[p].op), record |-> t.result,
                        attempts |-> t.attempts]]
                /\ transaction' =
                       [Invalidate(p, WrittenRefs(t.writes)) EXCEPT ![p] = NoTransaction]
                /\ allocated' = IF t.new_counter_value > 0
                                THEN Append(allocated,
                                            [number |-> t.new_counter_value,
                                             deleted |-> deletions])
                                ELSE allocated
                /\ ledger' = LedgerAfter(req[p], CustomerRef(t.result.customer_id))
           ELSE /\ AttemptFailed(p, "NotFound", t.attempts)
                /\ UNCHANGED <<db, allocated, deletions, ledger>>
    /\ UNCHANGED <<req, opsStarted, deletions>>

\* transaction._commit() of a transaction whose read set is stale: Aborted.
commit_conflict(p) ==
    /\ pc[p] = "commit"
    /\ ~ReadSetValid(transaction[p])
    /\ AttemptFailed(p, "Aborted", transaction[p].attempts)
    /\ UNCHANGED <<db, req, opsStarted, allocated, deletions, ledger>>

\* ------------------------------------------------------------ delete

\* DELETE /customers/{customer_id}, up to its existence check (no transaction):
\* doc = customer_ref.get(); if not doc.exists: 404
delete_customer(p, id) ==
    /\ Accept(p, [op |-> "delete", customer_id |-> id, name |-> "", amount |-> 0])
    /\ IF Exists(db, CustomerRef(id))
       THEN /\ pc' = [pc EXCEPT ![p] = "delete"]
            /\ resp' = [resp EXCEPT ![p] = NoResponse]
       ELSE /\ pc' = [pc EXCEPT ![p] = "idle"]
            /\ resp' = [resp EXCEPT ![p] =
                   [status |-> "404", record |-> NoRecord, attempts |-> 0]]
    /\ UNCHANGED <<db, transaction, allocated, deletions, ledger>>

\* customer_ref.delete(): unconditional, whatever happened since the get.
delete_document(p) ==
    /\ pc[p] = "delete"
    /\ LET customer_ref == CustomerRef(req[p].customer_id) IN
        /\ db' = DeleteDoc(db, customer_ref)
        /\ ledger' = DeleteDoc(ledger, customer_ref)
        /\ deletions' = IF Exists(db, customer_ref) THEN deletions + 1 ELSE deletions
        /\ pc' = [pc EXCEPT ![p] = "idle"]
        /\ resp' = [resp EXCEPT ![p] =
               [status |-> "204", record |-> NoRecord, attempts |-> 0]]
        /\ transaction' =
               IF Exists(db, customer_ref)
               THEN Invalidate(p, {customer_ref})
               ELSE transaction
    /\ UNCHANGED <<req, opsStarted, allocated>>

Next ==
    \E p \in Procs :
        \/ \E name \in Names, id \in RequestedIds : create_customer(p, name, id)
        \/ \E id \in TargetIds, amount \in Amounts \cup InvalidAmounts :
              top_up_customer_balance(p, id, amount)
        \/ \E id \in TargetIds, amount \in Amounts \cup InvalidAmounts :
              spend_customer_balance(p, id, amount)
        \/ \E id \in TargetIds : delete_customer(p, id)
        \/ delete_document(p)
        \/ retry(p)
        \/ commit(p)
        \/ commit_conflict(p)

Spec == Init /\ [][Next]_vars

\* ------------------------------------------------------------ properties

Customers == CustomerKeys(db)

CounterValue == IF Exists(db, CounterRef) THEN db[CounterRef].current_value ELSE 0

\* Slot p's last request was a creation without a requested id that succeeded.
Allocated(p) ==
    /\ req[p].op = "create" /\ ~Truthy(req[p].customer_id)
    /\ resp[p].status = "201"

\* Slot p's last request was op on customer id and was answered with status.
Answered(p, op, status) == req[p].op = op /\ resp[p].status = status

\* C1: every customer document has balance == total_top_up - total_spent
\* (the difference taken in the arithmetic of the stored values).
C1_BalanceIsDifference ==
    \A k \in Customers :
        db[k].balance = FSub(db[k].total_top_up, db[k].total_spent)

\* C2: every customer document has balance >= 0, also after concurrent
\* spends whose amounts together exceed the balance.
C2_BalanceNonNegative ==
    \A k \in Customers : db[k].balance >= 0

\* Two spends on the same customer overlapped (the second was aborted once
\* and run again), one was committed and the other refused.
C2_Witness ==
    \E p, q \in Procs :
        /\ p # q
        /\ Answered(p, "spend", "200") /\ Answered(q, "spend", "400")
        /\ req[p].customer_id = req[q].customer_id
        /\ resp[q].attempts >= 2
        /\ Exists(db, CustomerRef(req[p].customer_id))
        /\ db[CustomerRef(req[p].customer_id)].balance < req[q].amount

\* C3: the committed allocations carry the numbers 1, 2, ... in commit
\* order without gap or repeat, the counter stands at the last of them, and
\* the creations answered return distinct identifiers of allocated numbers.
C3_ContiguousAllocation ==
    /\ \A i \in DOMAIN allocated : allocated[i].number = i
    /\ CounterValue = Len(allocated)
    /\ \A p \in Procs :
          Allocated(p) =>
              \E i \in DOMAIN allocated : resp[p].record.customer_id = FormatId(i)
    /\ \A p, q \in Procs :
          (p # q /\ Allocated(p) /\ Allocated(q)) =>
              resp[p].record.customer_id # resp[q].record.customer_id

\* Two creations without a requested id overlapped (one was aborted and run
\* again) and both succeeded.
C3_Witness ==
    \E p, q \in Procs :
        /\ p # q /\ Allocated(p) /\ Allocated(q)
        /\ resp[q].attempts >= 2

\* C4: the counter never decreases, and every allocation that commits takes
\* a number greater than every number allocated before it.
C4_CounterMonotone ==
    [][/\ CounterValue' >= CounterValue
       /\ Len(allocated') > Len(allocated) =>
             \A i \in DOMAIN allocated :
                 allocated'[Len(allocated')].number > allocated[i].number]_vars

\* An allocation committed after a customer document had been deleted since
\* the allocation before it.
C4_Witness ==
    \E i \in DOMAIN allocated :
        /\ i > 1
        /\ allocated[i].deleted > allocated[i - 1].deleted

InitTopUps ==
    /\ Init
    /\ Exists(db, CustomerRef("GOD-0001"))

TopUpStep(p) ==
    \/ \E amount \in Amounts : top_up_customer_balance(p, "GOD-0001", amount)
    \/ retry(p)
    \/ commit(p)
    \/ commit_conflict(p)

NextTopUps == \E p \in Procs : TopUpStep(p)

\* While some handler can take a step, a step is eventually taken: requests
\* keep arriving, handlers keep running and the store answers every call.
SpecTopUps == InitTopUps /\ [][NextTopUps]_vars /\ WF_vars(NextTopUps)

\* C6: concurrent top-ups of the same existing customer all eventually
\* succeed: no request is answered with a failure, and eventually every
\* request has been accepted and answered with success.
C6_TopUpsSucceed ==
    /\ [](\A p \in Procs : resp[p].status \in {"none", "200"})
    /\ <>[](/\ opsStarted = MaxOps
            /\ \A p \in Procs : pc[p] = "idle" /\ resp[p].status \in {"none", "200"}
            /\ \E p \in Procs : Answered(p, "topup", "200"))

\* All top-ups succeeded and one of them was aborted and run again.
C6_Witness ==
    /\ opsStarted = MaxOps
    /\ \A p \in Procs : Answered(p, "topup", "200")
    /\ \E p \in Procs : resp[p].attempts >= 2

\* The step runs the body of slot p's transaction (its first run when the
\* request is accepted, or a run after an aborted commit); the request it
\* runs for is then req'[p] and the store it reads is db.
RunsBody(p) ==
    \/ /\ pc[p] = "idle" /\ req'[p].op = "create"
       /\ \E name \in Names, id \in RequestedIds : create_customer(p, name, id)
    \/ /\ pc[p] = "idle" /\ req'[p].op = "topup"
       /\ \E id \in TargetIds, amount \in Amounts :
             top_up_customer_balance(p, id, amount)
       /\ TransactionAmount(req'[p].amount)
    \/ /\ pc[p] = "idle" /\ req'[p].op = "spend"
       /\ \E id \in TargetIds, amount \in Amounts :
             spend_customer_balance(p, id, amount)
       /\ TransactionAmount(req'[p].amount)
    \/ retry(p)

\* The step ends slot p's request with the error status, having buffered and
\* written nothing.
FailsWith(p, status) ==
    /\ resp'[p].status = status
    /\ pc'[p] = "idle"
    /\ transaction'[p].writes = <<>>
    /\ db' = db

\* C7: a spend whose transaction reads balance < amount fails with 400
\* (insufficient balance) and leaves every document and the counter as they were.
C7_InsufficientSpendWritesNothing ==
    [][\A p \in Procs :
          (/\ req'[p].op = "spend"
           /\ Exists(db, CustomerRef(req'[p].customer_id))
           /\ db[CustomerRef(req'[p].customer_id)].balance < req'[p].amount
           /\ RunsBody(p))
          => FailsWith(p, "400")]_vars

\* A spend of more than the (positive) balance was refused and the balance
\* is still there.
C7_Witness ==
    \E p \in Procs :
        /\ Answered(p, "spend", "400")
        /\ Exists(db, CustomerRef(req[p].customer_id))
        /\ db[CustomerRef(req[p].customer_id)].balance > 0
        /\ db[CustomerRef(req[p].customer_id)].balance < req[p].amount

\* C8: a creation with a requested id at which a document exists fails with
\* 409 (already exists) and leaves that document and the counter as they were.
C8_ExistingIdRefused ==
    [][\A p \in Procs :
          (/\ req'[p].op = "create"
           /\ Truthy(req'[p].customer_id)
           /\ Exists(db, CustomerRef(req'[p].customer_id))
           /\ RunsBody(p))
          => FailsWith(p, "409")]_vars

\* A creation was refused at the id of a document that has another name and
\* a balance, which it kept.
C8_Witness ==
    \E p \in Procs :
        /\ Answered(p, "create", "409")
        /\ Exists(db, CustomerRef(req[p].customer_id))
        /\ db[CustomerRef(req[p].customer_id)].name # req[p].name
        /\ db[CustomerRef(req[p].customer_id)].balance > 0

\* C9: a top-up or a spend on an id with no document fails with 404 (not
\* found); no document is created and nothing else changes.
C9_AbsentCustomerNotFound ==
    [][\A p \in Procs :
          (/\ req'[p].op \in {"topup", "spend"}
           /\ ~Exists(db, CustomerRef(req'[p].customer_id))
           /\ RunsBody(p))
          => FailsWith(p, "404")]_vars

\* A top-up and a spend were refused at an id that has no document.
C9_Witness ==
    \E p, q \in Procs :
        /\ Answered(p, "topup", "404") /\ Answered(q, "spend", "404")
        /\ req[p].customer_id = req[q].customer_id
        /\ ~Exists(db, CustomerRef(req[p].customer_id))

\* C10: a body that ends in a business-rule violation (400, 404, 409) ends
\* its request with that error and is not run again; a body is run again
\* only after the commit of the attempt before it was aborted for a stale read.
C10_OnlyConflictsRetried ==
    [][\A p \in Procs :
          /\ (/\ pc[p] \in {"idle", "retry"}
              /\ RunsBody(p)
              /\ TransactionBody(db, req'[p]).exc \in HttpStatuses)
                => (/\ resp'[p].status = TransactionBody(db, req'[p]).exc
                    /\ pc'[p] = "idle")
          /\ (pc'[p] = "retry" /\ pc[p] # "retry")
                => (pc[p] = "commit" /\ ~ReadSetValid(transaction[p]))
          /\ (pc[p] = "idle" /\ RunsBody(p))
                => (transaction'[p].attempts <= 1 /\ resp'[p].attempts <= 1)]_vars

\* A request was aborted for a stale read, run again, and then ended in a
\* business-rule violation.
C10_Witness ==
    \E p \in Procs :
        /\ resp[p].status \in HttpStatuses
        /\ resp[p].attempts >= 2

\* The step commits slot p's transaction and answers its request with success.
Commits(p) == pc[p] = "commit" /\ resp'[p].status \in {"200", "201"}

\* The counter document of a store (Absent when it has none).
Absent == [current_value |-> -1]
CounterDoc(store) == IF Exists(store, CounterRef) THEN store[CounterRef] ELSE Absent

\* C11 as stated: the counter changes only in the commit of a creation
\* whose request carries no requested id, and such a commit raises it by
\* exactly 1; every other step (a creation with a requested id, a top-up, a
\* spend, a delete, an aborted attempt) leaves the counter as it was.
C11_CounterFrame ==
    [][/\ CounterDoc(db') # CounterDoc(db) =>
             \E p \in Procs :
                 /\ Commits(p) /\ req[p].op = "create"
                 /\ req[p].customer_id = NoId
                 /\ CounterValue' = CounterValue + 1
       /\ \A p \in Procs :
             (Commits(p) /\ req[p].op = "create" /\ req[p].customer_id = NoId)
                 => (Exists(db', CounterRef) /\ CounterValue' = CounterValue + 1)]_vars

\* C11, amended: the same with "no requested id" read as the code reads it,
\* requested id None or the empty string; only a creation with a non-empty
\* requested id leaves the counter alone.
C11_CounterFrameNonEmpty ==
    [][/\ CounterDoc(db') # CounterDoc(db) =>
             \E p \in Procs :
                 /\ Commits(p) /\ req[p].op = "create"
                 /\ ~Truthy(req[p].customer_id)
                 /\ CounterValue' = CounterValue + 1
       /\ \A p \in Procs :
             (Commits(p) /\ req[p].op = "create" /\ ~Truthy(req[p].customer_id))
                 => (Exists(db', CounterRef) /\ CounterValue' = CounterValue + 1)]_vars

\* A creation with a non-empty requested id and a creation with the empty
\* requested id both succeeded, and the counter counts the second only.
C11_Witness ==
    \E p, q \in Procs :
        /\ Answered(p, "create", "201") /\ Truthy(req[p].customer_id)
        /\ Answered(q, "create", "201") /\ req[q].customer_id = ""
        /\ CounterValue = Len(allocated)
        /\ CounterValue = 1

\* Scenario: creations without a requested id, served concurrently, on the
\* store left by n earlier allocations on an empty store, each customer
\* deleted again: no counter document for n = 0, else the counter at n.
CounterSeeds == {0, 8, 98, 998, 9998}

StoreAtCounter(n) ==
    IF n = 0 THEN SeedStore(0)
    ELSE SetDoc(SeedStore(0), CounterRef, [current_value |-> n])

InitAllocate ==
    /\ \E n \in CounterSeeds :
          /\ db = StoreAtCounter(n)
          /\ allocated = [i \in 1..n |-> [number |-> i, deleted |-> i - 1]]
          /\ deletions = n
    /\ ledger = [k \in {} |-> ZeroLedger]
    /\ pc = [p \in Procs |-> "idle"]
    /\ req = [p \in Procs |-> NoRequest]
    /\ transaction = [p \in Procs |-> NoTransaction]
    /\ resp = [p \in Procs |-> NoResponse]
    /\ opsStarted = 0

AllocateStep(p) ==
    \/ \E name \in Names : create_customer(p, name, NoId)
    \/ retry(p)
    \/ commit(p)
    \/ commit_conflict(p)

NextAllocate == \E p \in Procs : AllocateStep(p)

SpecAllocate == InitAllocate /\ [][NextAllocate]_vars

\* The identifier of number k as the specification writes it.
ExpectedId(k) ==
    CASE k = 1 -> "GOD-0001" [] k = 2 -> "GOD-0002"
      [] k = 3 -> "GOD-0003" [] k = 4 -> "GOD-0004"
      [] k = 9 -> "GOD-0009" [] k = 10 -> "GOD-0010"
      [] k = 11 -> "GOD-0011" [] k = 12 -> "GOD-0012"
      [] k = 99 -> "GOD-0099" [] k = 100 -> "GOD-0100"
      [] k = 101 -> "GOD-0101" [] k = 102 -> "GOD-0102"
      [] k = 999 -> "GOD-0999" [] k = 1000 -> "GOD-1000"
      [] k = 1001 -> "GOD-1001" [] k = 1002 -> "GOD-1002"
      [] k = 9999 -> "GOD-9999" [] k = 10000 -> "GOD-10000"
      [] k = 10001 -> "GOD-10001" [] k = 10002 -> "GOD-10002"
      [] OTHER -> "?"

C13_TopUpSpendAreDeltas ==
    [][\A p \in Procs :
          LET k == CustomerRef(req[p].customer_id)
              a == req[p].amount
          IN  /\ (Commits(p) /\ req[p].op = "topup") =>
                    /\ FSub(db'[k].total_top_up, db[k].total_top_up) = a
                    /\ FSub(db'[k].balance, db[k].balance) = a
              /\ (Commits(p) /\ req[p].op = "spend") =>
                    /\ FSub(db'[k].total_spent, db[k].total_spent) = a
                    /\ FSub(db[k].balance, db'[k].balance) = a]_vars

\* The step accepts a top-up or a spend request in slot p.
AcceptsAmount(p) ==
    /\ pc[p] = "idle"
    /\ req'[p].op \in {"topup", "spend"}
    /\ \/ \E id \in TargetIds, amount \in Amounts \cup InvalidAmounts :
             top_up_customer_balance(p, id, amount)
       \/ \E id \in TargetIds, amount \in Amounts \cup InvalidAmounts :
             spend_customer_balance(p, id, amount)

\* C14: a top-up or a spend request with amount <= 0 is answered with a
\* validation error when it is accepted: its transaction makes no read and
\* buffers no write, and the store and the transactions of the other
\* requests are as they were.
C14_NonPositiveAmountRejected ==
    [][\A p \in Procs :
          (req'[p].amount <= 0 /\ AcceptsAmount(p)) =>
              /\ resp'[p].status = "422"
              /\ pc'[p] = "idle"
              /\ transaction'[p] = NoTransaction
              /\ transaction' = transaction
              /\ db' = db]_vars

\* A top-up of 0 and a spend of -1 were rejected on a customer that exists
\* and has a balance.
C14_Witness ==
    \E p, q \in Procs :
        /\ Answered(p, "topup", "422") /\ req[p].amount = 0
        /\ Answered(q, "spend", "422") /\ req[q].amount = -1
        /\ req[p].customer_id = req[q].customer_id
        /\ Exists(db, CustomerRef(req[p].customer_id))
        /\ db[CustomerRef(req[p].customer_id)].balance > 0

\* C15: a customer document that exists is changed only by the commit of a
\* top-up or a spend on it and removed only by a delete of it; in particular
\* no commit of a creation, with a requested or with a generated identifier,
\* replaces it.
C15_CreateNeverReplaces ==
    [][\A k \in Customers :
          /\ k \notin CustomerKeys(db') =>
                \E p \in Procs :
                    /\ pc[p] = "delete" /\ pc'[p] = "idle"
                    /\ CustomerRef(req[p].customer_id) = k
          /\ (k \in CustomerKeys(db') /\ db'[k] # db[k]) =>
                \E p \in Procs :
                    /\ Commits(p) /\ req[p].op \in {"topup", "spend"}
                    /\ CustomerRef(req[p].customer_id) = k]_vars

\* C16: the record a top-up or a spend returns with success (the snapshot
\* its body read, with the two new values) is the content of the customer's
\* document in the store right after the commit of its transaction.
C16_ReturnedRecordIsStored ==
    [][\A p \in Procs :
          (Commits(p) /\ req[p].op \in {"topup", "spend"}) =>
              /\ Exists(db', CustomerRef(req[p].customer_id))
              /\ resp'[p].record = db'[CustomerRef(req[p].customer_id)]]_vars

\* A top-up overlapped with a spend on the same customer, was aborted by
\* the spend's commit and run again, and the record it returned carries the
\* spend's total as the stored document does.
C16_Witness ==
    \E p, q \in Procs :
        /\ Answered(p, "topup", "200") /\ Answered(q, "spend", "200")
        /\ req[p].customer_id = req[q].customer_id
        /\ resp[p].attempts >= 2
        /\ resp[p].record.total_spent > 0
        /\ Exists(db, CustomerRef(req[p].customer_id))
        /\ resp[p].record = db[CustomerRef(req[p].customer_id)]

\* Slot p's request is a creation with the (non-empty) requested id `id`.
Requests(p, id) ==
    req[p].op = "create" /\ Truthy(id) /\ req[p].customer_id = id

\* Of two creations with the same requested id, with no delete so far, at
\* most one has succeeded, and once one has, the other's answer is 409.
OneCreationWins ==
    \A p, q \in Procs :
        (/\ p # q /\ deletions = 0
         /\ Requests(p, req[p].customer_id) /\ Requests(q, req[p].customer_id)
         /\ resp[p].status = "201")
        => resp[q].status \in {"none", "409"}

\* C17: of two creations with the same requested id served concurrently,
\* exactly one succeeds and the other fails with 409 (already exists); the
\* one that succeeds commits on a store without document at that id and
\* stores a new document with its name; no step of the other changes the
\* document once it exists.
C17_OneOfTwoCreationsWins ==
    [][/\ OneCreationWins'
       /\ \A p \in Procs :
             LET ref == CustomerRef(req[p].customer_id) IN
             /\ (Commits(p) /\ Requests(p, req[p].customer_id)) =>
                   /\ ~Exists(db, ref)
                   /\ db'[ref] = NewCustomer(req[p].name, req[p].customer_id)
                   /\ resp'[p].record = db'[ref]
             /\ (/\ Requests(p, req[p].customer_id)
                 /\ pc[p] \in {"commit", "retry"} /\ pc'[p] # pc[p]
                 /\ Exists(db, ref)) =>
                   /\ db' = db
                   /\ resp'[p].status \in {"none", "409"}]_vars

\* Two creations with the same requested id and different names overlapped:
\* one succeeded, the other was aborted, run again and refused, and the
\* document carries the name of the one that succeeded.
C17_Witness ==
    \E p, q \in Procs :
        /\ p # q /\ deletions = 0
        /\ Requests(p, req[p].customer_id) /\ Requests(q, req[p].customer_id)
        /\ resp[p].status = "201" /\ resp[q].status = "409"
        /\ resp[q].attempts >= 2
        /\ req[p].name # req[q].name
        /\ Exists(db, CustomerRef(req[p].customer_id))
        /\ db[CustomerRef(req[p].customer_id)].name = req[p].name

\* C18: a customer document that is absent (never created, or removed by a
\* delete) comes into being only by the commit of a creation, never by a
\* top-up or a spend; and a top-up or a spend returns success only for a
\* write applied to a document that exists when it commits.
C18_DeletedStaysAbsent ==
    [][/\ \A k \in CustomerKeys(db') \ Customers :
             \E p \in Procs : Commits(p) /\ req[p].op = "create"
       /\ \A p \in Procs :
             (/\ req[p].op \in {"topup", "spend"}
              /\ pc[p] \in {"commit", "retry"} /\ pc'[p] # pc[p]
              /\ ~Exists(db, CustomerRef(req[p].customer_id)))
             => /\ db' = db
                /\ resp'[p].status \in {"none", "404"}]_vars

\* A top-up read the customer, a delete removed the document before the
\* top-up's commit, the commit was aborted, the body run again and answered
\* with 404; the document is absent.
C18_Witness ==
    \E p, q \in Procs :
        /\ req[p].op \in {"topup", "spend"} /\ resp[p].status = "404"
        /\ resp[p].attempts >= 2
        /\ Answered(q, "delete", "204")
        /\ req[p].customer_id = req[q].customer_id
        /\ ~Exists(db, CustomerRef(req[p].customer_id))

\* The documents of a store other than the one at ref.
Others(store, ref) == [k \in DOMAIN store \ {ref} |-> store[k]]

\* C19: the commit of a top-up or a spend on customer c changes no document
\* but c's (every other customer's document and the counter stay, none is
\* added or removed), and in c's document a top-up leaves total_spent, name
\* and customer_id as they were and a spend leaves total_top_up, name and
\* customer_id as they were.
C19_UpdateFrame ==
    [][\A p \in Procs :
          LET k == CustomerRef(req[p].customer_id) IN
          (Commits(p) /\ req[p].op \in {"topup", "spend"}) =>
              /\ Others(db', k) = Others(db, k)
              /\ Exists(db, k) /\ Exists(db', k)
              /\ DOMAIN db'[k] = DOMAIN db[k]
              /\ db'[k].name = db[k].name
              /\ db'[k].customer_id = db[k].customer_id
              /\ req[p].op = "topup" => db'[k].total_spent = db[k].total_spent
              /\ req[p].op = "spend" => db'[k].total_top_up = db[k].total_top_up]_vars

\* A spend was committed on a customer with a total_top_up, which it kept,
\* while another customer's document and the counter are in the store.
C19_Witness ==
    \E p \in Procs :
        /\ Answered(p, "spend", "200")
        /\ Exists(db, CustomerRef(req[p].customer_id))
        /\ db[CustomerRef(req[p].customer_id)].total_top_up > 0
        /\ db[CustomerRef(req[p].customer_id)].total_spent > 0
        /\ Exists(db, CounterRef)
        /\ \E k \in Customers : k # CustomerRef(req[p].customer_id)

====
